---- MODULE Spec2Model ----
(***************************************************************************)
(* State-machine model of scripts/config_manager.py: the ConfigManager     *)
(* store (load, validate, typed accessors, point update with immediate     *)
(* persistence) and the module-level create_default_config.                *)
(*                                                                         *)
(* Python objects are tagged records, so that values of different Python   *)
(* types are never equal:                                                  *)
(*   None -> [none |-> TRUE]     int  -> [int |-> n]    str -> [str |-> s] *)
(*   bool -> [bool |-> b]        dict -> [map |-> f]    list -> [seq |-> s]*)
(*   tuple -> [tuple |-> s]      generator object -> [gen |-> TRUE]        *)
(* The outcome of a call is a record [exc, msg, names, value, logs]: the   *)
(* exception class raised ("none" on a normal return), the fixed part of   *)
(* its message, the names the message lists, the value returned and the    *)
(* logger calls made.                                                      *)
(***************************************************************************)
EXTENDS Integers, Sequences, FiniteSets, TLC

VARIABLES file, constructed, config, env, logging, nUpdates, result,
          pc, stdout, caught

vars == <<file, constructed, config, env, logging, nUpdates, result, pc, stdout, caught>>

\* The variables of the example flow under `if __name__ == "__main__"`: its
\* position, the lines it printed and the exception its handler bound to e.
flow == <<pc, stdout, caught>>

(* ------------------------------------------------------------------ *)
(* Bounds of the model                                                  *)
(* ------------------------------------------------------------------ *)

\* update_config calls explored along one behaviour
MaxUpdates == 2

\* validation_rules entries of an initial document
MaxRules == 2

(* ------------------------------------------------------------------ *)
(* Python values                                                        *)
(* ------------------------------------------------------------------ *)

NoneV == [none |-> TRUE]

PyInt(n) == [int |-> n]

PyStr(s) == [str |-> s]

PyBool(b) == [bool |-> b]

PyDict(f) == [map |-> f]

PyList(s) == [seq |-> s]

PyTuple(s) == [tuple |-> s]

Generator == [gen |-> TRUE]

EmptyDict == PyDict([k \in {} |-> NoneV])

IsNone(v) == DOMAIN v = {"none"}

IsInt(v) == DOMAIN v = {"int"}

IsStr(v) == DOMAIN v = {"str"}

IsDict(v) == DOMAIN v = {"map"}

IsList(v) == DOMAIN v = {"seq"}

IsTuple(v) == DOMAIN v = {"tuple"}

\* Python truthiness (`if value:`)
Truthy(v) ==
    CASE IsNone(v) -> FALSE
      [] IsStr(v) -> v.str # ""
      [] IsInt(v) -> v.int # 0
      [] DOMAIN v = {"bool"} -> v.bool
      [] IsDict(v) -> DOMAIN v.map # {}
      [] IsList(v) -> Len(v.seq) > 0
      [] IsTuple(v) -> Len(v.tuple) > 0
      [] OTHER -> TRUE

\* key in d, for a dict d
Has(d, k) == k \in DOMAIN d.map

\* d.get(k, default), for a dict d
Get(d, k, default) == IF Has(d, k) THEN d.map[k] ELSE default

\* d[k] = v, for a dict d
Put(d, k, v) == PyDict([x \in (DOMAIN d.map) \cup {k} |-> IF x = k THEN v ELSE d.map[x]])

(* ------------------------------------------------------------------ *)
(* Outcomes                                                             *)
(* ------------------------------------------------------------------ *)

Ok(v) == [exc |-> "none", msg |-> "", names |-> <<>>, value |-> v, logs |-> <<>>]

Raise(e, m, n) == [exc |-> e, msg |-> m, names |-> n, value |-> NoneV, logs |-> <<>>]

(* ------------------------------------------------------------------ *)
(* YAML: yaml.dump (full Dumper) and yaml.safe_load (SafeLoader)        *)
(* ------------------------------------------------------------------ *)

\* Tags the safe constructor knows; anything else is a Python-specific tag.
SafeTags == {"null", "bool", "int", "str", "map", "seq"}

RECURSIVE CanRepresent(_)
\* Whether the Representer finds a representer for every object of the graph:
\* a generator has none (RepresenterError / TypeError from __reduce_ex__).
CanRepresent(v) ==
    CASE IsDict(v) -> \A k \in DOMAIN v.map : CanRepresent(v.map[k])
      [] IsList(v) -> \A i \in 1..Len(v.seq) : CanRepresent(v.seq[i])
      [] IsTuple(v) -> \A i \in 1..Len(v.tuple) : CanRepresent(v.tuple[i])
      [] DOMAIN v = {"gen"} -> FALSE
      [] OTHER -> TRUE

RECURSIVE Represent(_)
\* The node graph yaml.dump serialises: each object under the tag of its type.
\* A str is quoted whenever a plain scalar would resolve to another tag, so
\* the scalar keeps its type in the text; a tuple is a sequence tagged
\* python/tuple.
Represent(v) ==
    CASE IsNone(v) -> [tag |-> "null", body |-> v]
      [] DOMAIN v = {"bool"} -> [tag |-> "bool", body |-> v]
      [] IsInt(v) -> [tag |-> "int", body |-> v]
      [] IsStr(v) -> [tag |-> "str", body |-> v]
      [] IsDict(v) -> [tag |-> "map", body |-> [k \in DOMAIN v.map |-> Represent(v.map[k])]]
      [] IsList(v) -> [tag |-> "seq", body |-> [i \in 1..Len(v.seq) |-> Represent(v.seq[i])]]
      [] IsTuple(v) ->
            [tag |-> "python/tuple", body |-> [i \in 1..Len(v.tuple) |-> Represent(v.tuple[i])]]

RECURSIVE Constructible(_)
\* Whether SafeConstructor has a constructor for every tag of the node graph.
Constructible(n) ==
    /\ n.tag \in SafeTags
    /\ n.tag = "map" => \A k \in DOMAIN n.body : Constructible(n.body[k])
    /\ n.tag = "seq" => \A i \in 1..Len(n.body) : Constructible(n.body[i])

RECURSIVE SafeConstruct(_)
\* The object safe_load builds from a constructible node graph.
SafeConstruct(n) ==
    CASE n.tag = "map" -> PyDict([k \in DOMAIN n.body |-> SafeConstruct(n.body[k])])
      [] n.tag = "seq" -> PyList([i \in 1..Len(n.body) |-> SafeConstruct(n.body[i])])
      [] OTHER -> n.body

\* The file open(path, 'w') + yaml.dump(data, file) leaves behind: the
\* serialised graph, or the truncated (empty) file when representing fails.
DumpedFile(data) ==
    IF CanRepresent(data)
    THEN [kind |-> "yaml", node |-> Represent(data)]
    ELSE [kind |-> "empty"]

\* yaml.safe_load(file) on an existing file: the object, or a YAMLError.
\* An empty stream loads as None.
safe_load(f) ==
    CASE f.kind = "malformed" -> Raise("YAMLError", "scanner/parser error", <<>>)
      [] f.kind = "empty" -> Ok(NoneV)
      [] f.kind = "yaml" ->
            IF Constructible(f.node)
            THEN Ok(SafeConstruct(f.node))
            ELSE Raise("YAMLError", "could not determine a constructor for the tag", <<>>)

(* ------------------------------------------------------------------ *)
(* The logging module                                                   *)
(* ------------------------------------------------------------------ *)

\* The level names that are attributes of the logging module, with their
\* numeric values.
LevelNames == {"CRITICAL", "FATAL", "ERROR", "WARNING", "WARN", "INFO", "DEBUG", "NOTSET"}

LevelOf(name) ==
    CASE name \in {"CRITICAL", "FATAL"} -> 50
      [] name = "ERROR" -> 40
      [] name \in {"WARNING", "WARN"} -> 30
      [] name = "INFO" -> 20
      [] name = "DEBUG" -> 10
      [] name = "NOTSET" -> 0

\* logging.basicConfig(level=lvl, format=...): configures the root logger only
\* when it has no handler yet; a later call changes nothing.
basicConfig(lg, lvl) ==
    IF lg.configured THEN lg ELSE [configured |-> TRUE, level |-> lvl]

(* ------------------------------------------------------------------ *)
(* ConfigManager: construction                                          *)
(* ------------------------------------------------------------------ *)

required_sections == <<"database", "data_sources", "data_quality", "pipeline">>

\* ConfigManager._validate_config: the first required section missing from
\* the mapping is named in a ValueError; `section not in None` is a TypeError.
validate_config(cfg) ==
    IF ~IsDict(cfg)
    THEN Raise("TypeError", "argument of type is not iterable", <<>>)
    ELSE LET missing == {i \in 1..Len(required_sections) : ~Has(cfg, required_sections[i])}
         IN  IF missing = {}
             THEN Ok(NoneV)
             ELSE LET first == CHOOSE i \in missing : \A j \in missing : i <= j
                  IN  Raise("ValueError", "Missing required configuration section",
                            <<required_sections[first]>>)

\* ConfigManager._load_config: open, safe_load, validate, return the document.
load_config(f) ==
    IF f.kind = "absent"
    THEN Raise("FileNotFoundError", "Configuration file not found", <<>>)
    ELSE LET loaded == safe_load(f)
         IN  IF loaded.exc = "YAMLError"
             THEN Raise("ValueError", "Invalid YAML syntax in config file", <<>>)
             ELSE LET checked == validate_config(loaded.value)
                  IN  IF checked.exc # "none" THEN checked ELSE Ok(loaded.value)

\* x.get(k, default) on an arbitrary object: only a dict has the method.
DotGet(x, k, default) ==
    IF IsDict(x) THEN Ok(Get(x, k, default))
    ELSE Raise("AttributeError", "object has no attribute 'get'", <<>>)

\* ConfigManager._setup_logging: the outcome and the logging state it leaves.
\* getattr(logging, log_level) raises for a name the module does not have.
setup_logging(cfg, lg) ==
    LET p == DotGet(cfg, "pipeline", EmptyDict)
        l == DotGet(p.value, "logging", EmptyDict)
        v == DotGet(l.value, "level", PyStr("INFO"))
    IN  CASE p.exc # "none" -> [out |-> p, logging |-> lg]
          [] l.exc # "none" -> [out |-> l, logging |-> lg]
          [] v.exc # "none" -> [out |-> v, logging |-> lg]
          [] ~IsStr(v.value) ->
                [out |-> Raise("TypeError", "attribute name must be string", <<>>),
                 logging |-> lg]
          [] v.value.str \notin LevelNames ->
                [out |-> Raise("AttributeError", "module 'logging' has no attribute",
                               <<v.value.str>>),
                 logging |-> lg]
          [] OTHER ->
                [out |-> Ok(NoneV), logging |-> basicConfig(lg, LevelOf(v.value.str))]

\* ConfigManager.__init__(path): the outcome (value: the loaded document) and
\* the logging state afterwards.
ConfigManagerInit(f, lg) ==
    LET loaded == load_config(f)
    IN  IF loaded.exc # "none"
        THEN [out |-> loaded, logging |-> lg]
        ELSE LET setup == setup_logging(loaded.value, lg)
             IN  IF setup.out.exc # "none"
                 THEN setup
                 ELSE [out |-> Ok(loaded.value), logging |-> setup.logging]

(* ------------------------------------------------------------------ *)
(* ConfigManager: accessors                                             *)
(* ------------------------------------------------------------------ *)

\* An instance of a dataclass: its class and its fields.
DataObj(cls, f) == [cls |-> cls, fields |-> f]

\* list(d.keys()): the keys of a dict (their order is not modelled).
KeyList(d) == [keys |-> DOMAIN d.map]

\* x[k] for a str key k: KeyError on a dict without k, TypeError on any
\* object that is no dict (None, int, str, list and tuple take no str index).
Subscript(x, k) ==
    IF ~IsDict(x) THEN Raise("TypeError", "object is not subscriptable by str", <<>>)
    ELSE IF ~Has(x, k) THEN Raise("KeyError", "", <<k>>)
    ELSE Ok(x.map[k])

\* ConfigManager.get_database_config
get_database_config(cfg) ==
    LET db == Subscript(cfg, "database")
        name == Subscript(db.value, "name")
        schemas == Subscript(db.value, "schemas")
    IN  CASE db.exc # "none" -> db
          [] name.exc # "none" -> name
          [] schemas.exc # "none" -> schemas
          [] OTHER -> Ok(DataObj("DatabaseConfig",
                                 [name |-> name.value, schemas |-> schemas.value]))

\* `k not in x` for a str k: key test on a dict, element test on a list or
\* tuple, TypeError on None, int, bool (substring test on a str is not modelled:
\* no document of the model holds a str there).
NotIn(k, x) ==
    CASE IsDict(x) -> Ok(PyBool(~Has(x, k)))
      [] IsList(x) -> Ok(PyBool(~\E i \in 1..Len(x.seq) : x.seq[i] = PyStr(k)))
      [] IsTuple(x) -> Ok(PyBool(~\E i \in 1..Len(x.tuple) : x.tuple[i] = PyStr(k)))
      [] OTHER -> Raise("TypeError", "argument of type is not iterable", <<>>)

\* A lookup that answers an absent source with the .get default instead of
\* raising.
get_data_source_config_default(cfg, source_name) ==
    LET data_sources == DotGet(cfg, "data_sources", EmptyDict)
    IN  IF data_sources.exc # "none" THEN data_sources
        ELSE Ok(Get(data_sources.value, source_name, EmptyDict))

\* ConfigManager.get_data_source_config
get_data_source_config(cfg, source_name) ==
    LET data_sources == DotGet(cfg, "data_sources", EmptyDict)
        absent == NotIn(source_name, data_sources.value)
    IN  CASE data_sources.exc # "none" -> data_sources
          [] absent.exc # "none" -> absent
          [] absent.value.bool ->
                Raise("KeyError", "Data source not found in configuration", <<source_name>>)
          [] OTHER -> Subscript(data_sources.value, source_name)

\* The four fields DataQualityRule(...) is built from by subscription, in the
\* order the call evaluates them.
rule_fields == <<"name", "type", "threshold", "critical">>

\* One iteration of get_data_quality_rules: the DataQualityRule of a record, or
\* the KeyError / TypeError of the first field that cannot be subscripted.
MakeRule(rule_config) ==
    LET bad == {i \in 1..Len(rule_fields) : Subscript(rule_config, rule_fields[i]).exc # "none"}
    IN  IF bad # {}
        THEN Subscript(rule_config, rule_fields[CHOOSE i \in bad : \A j \in bad : i <= j])
        ELSE Ok(DataObj("DataQualityRule",
                        [name |-> rule_config.map["name"],
                         type |-> rule_config.map["type"],
                         threshold |-> rule_config.map["threshold"],
                         critical |-> rule_config.map["critical"],
                         rules |-> Get(rule_config, "rules", NoneV)]))

\* ConfigManager.get_data_quality_rules: the rules in document order; the loop
\* stops at the first record that raises (validation_rules is a list by its
\* declared type; iterating a dict or a str there is not modelled).
get_data_quality_rules(cfg) ==
    LET quality_config == DotGet(cfg, "data_quality", EmptyDict)
        rules_config == DotGet(quality_config.value, "validation_rules", PyList(<<>>))
    IN  CASE quality_config.exc # "none" -> quality_config
          [] rules_config.exc # "none" -> rules_config
          [] ~(IsList(rules_config.value) \/ IsTuple(rules_config.value)) ->
                Raise("TypeError", "object is not iterable", <<>>)
          [] OTHER ->
                LET items == IF IsList(rules_config.value) THEN rules_config.value.seq
                             ELSE rules_config.value.tuple
                    bad == {i \in 1..Len(items) : MakeRule(items[i]).exc # "none"}
                IN  IF bad # {}
                    THEN MakeRule(items[CHOOSE i \in bad : \A j \in bad : i <= j])
                    ELSE Ok(PyList([i \in 1..Len(items) |-> MakeRule(items[i]).value]))

\* The type-specific test of validate_data_quality_thresholds on one
\* DataQualityRule with a numeric threshold.
is_valid(rule) ==
    LET type == rule.fields.type
        threshold == rule.fields.threshold.int
    IN  CASE type = PyStr("completeness") /\ ~(0 <= threshold /\ threshold <= 100) -> FALSE
          [] type = PyStr("uniqueness") /\ ~(0 <= threshold /\ threshold <= 100) -> FALSE
          [] type = PyStr("timeliness") /\ threshold < 0 -> FALSE
          [] OTHER -> TRUE

\* Whether the test compares the threshold at all (it does for the three
\* known types only), so that a non-numeric threshold raises TypeError.
ComparesThreshold(rule) ==
    rule.fields.type \in {PyStr("completeness"), PyStr("uniqueness"), PyStr("timeliness")}

\* ConfigManager.validate_data_quality_thresholds: a dict from rule name to
\* validity; a later rule of the same name overwrites the earlier entry; one
\* logger.warning per invalid rule, in document order. Rule names are str by
\* their declared type.
validate_data_quality_thresholds(cfg) ==
    LET got == get_data_quality_rules(cfg)
    IN  IF got.exc # "none" THEN got
        ELSE LET rules == got.value.seq
                 bad == {i \in 1..Len(rules) :
                            ComparesThreshold(rules[i]) /\ ~IsInt(rules[i].fields.threshold)}
                 stop == IF bad = {} THEN Len(rules) + 1
                         ELSE CHOOSE i \in bad : \A j \in bad : i <= j
                 done == SubSeq(rules, 1, stop - 1)
                 invalid == SelectSeq(done, LAMBDA r : ~is_valid(r))
                 warnings == [i \in 1..Len(invalid) |-> <<"WARNING", invalid[i].fields.name.str>>]
                 names == {rules[i].fields.name.str : i \in 1..Len(rules)}
                 last(n) == CHOOSE i \in 1..Len(rules) :
                               /\ rules[i].fields.name.str = n
                               /\ \A j \in 1..Len(rules) :
                                     rules[j].fields.name.str = n => j <= i
             IN  IF bad # {}
                 THEN [Raise("TypeError", "'<=' not supported between instances", <<>>)
                         EXCEPT !.logs = warnings]
                 ELSE [Ok(PyDict([n \in names |-> PyBool(is_valid(rules[last(n)]))]))
                         EXCEPT !.logs = warnings]

\* The fields PipelineStage(...) accepts as keywords.
PipelineStageFields ==
    {"batch_size", "parallel_workers", "error_handling", "warehouse_size",
     "timeout_minutes", "auto_suspend_minutes", "export_formats", "compression"}

\* A construction that drops the keywords that are no field.
PipelineStage_lenient(stage_config) ==
    IF ~IsDict(stage_config)
    THEN Raise("TypeError", "argument after ** must be a mapping", <<>>)
    ELSE Ok(DataObj("PipelineStage",
                    [f \in PipelineStageFields |-> Get(stage_config, f, NoneV)]))

\* PipelineStage(**stage_config): every field defaults to None; a keyword that
\* is no field, or an argument that is no mapping, is a TypeError.
PipelineStage(stage_config) ==
    IF ~IsDict(stage_config)
    THEN Raise("TypeError", "argument after ** must be a mapping", <<>>)
    ELSE IF ~(DOMAIN stage_config.map \subseteq PipelineStageFields)
    THEN Raise("TypeError", "__init__() got an unexpected keyword argument", <<>>)
    ELSE Ok(DataObj("PipelineStage",
                    [f \in PipelineStageFields |-> Get(stage_config, f, NoneV)]))

\* ConfigManager.get_pipeline_stage_config
get_pipeline_stage_config(cfg, stage_name) ==
    LET pipeline_config == DotGet(cfg, "pipeline", EmptyDict)
        stages_config == DotGet(pipeline_config.value, "stages", EmptyDict)
        absent == NotIn(stage_name, stages_config.value)
        stage_config == Subscript(stages_config.value, stage_name)
    IN  CASE pipeline_config.exc # "none" -> pipeline_config
          [] stages_config.exc # "none" -> stages_config
          [] absent.exc # "none" -> absent
          [] absent.value.bool ->
                Raise("KeyError", "Pipeline stage not found in configuration", <<stage_name>>)
          [] stage_config.exc # "none" -> stage_config
          [] OTHER -> PipelineStage(stage_config.value)

\* The environment variables get_snowflake_connection_params reads, in order.
required_params ==
    <<"SNOWFLAKE_ACCOUNT", "SNOWFLAKE_USER", "SNOWFLAKE_PASSWORD",
      "SNOWFLAKE_WAREHOUSE", "SNOWFLAKE_ROLE">>

\* param.lower().replace('snowflake_', '')
ParamKey(param) ==
    CASE param = "SNOWFLAKE_ACCOUNT" -> "account"
      [] param = "SNOWFLAKE_USER" -> "user"
      [] param = "SNOWFLAKE_PASSWORD" -> "password"
      [] param = "SNOWFLAKE_WAREHOUSE" -> "warehouse"
      [] param = "SNOWFLAKE_ROLE" -> "role"

\* A loop that stops at the first variable it finds missing.
missing_params_first(e) ==
    LET falsy == {i \in 1..5 : ~Truthy(e[required_params[i]])}
    IN  {i \in falsy : \A j \in falsy : i <= j}

\* The loop of get_snowflake_connection_params: the indexes of the variables
\* whose os.getenv value is falsy (unset, or set to the empty string).
missing_params(e) == {i \in 1..Len(required_params) : ~Truthy(e[required_params[i]])}

\* The elements of a set of indexes, in increasing order.
RECURSIVE Ascending(_)
Ascending(S) ==
    IF S = {} THEN <<>>
    ELSE LET m == CHOOSE i \in S : \A j \in S : i <= j
         IN  <<m>> \o Ascending(S \ {m})

\* ConfigManager.get_snowflake_connection_params
get_snowflake_connection_params(cfg, e) ==
    LET missing == Ascending(missing_params(e))
        db_config == get_database_config(cfg)
        keys == {ParamKey(required_params[i]) : i \in 1..Len(required_params)}
        param(k) == CHOOSE p \in DOMAIN e : p \in {required_params[i] : i \in 1..Len(required_params)}
                                            /\ ParamKey(p) = k
    IN  IF Len(missing) > 0
        THEN Raise("ValueError", "Missing required environment variables",
                   [i \in 1..Len(missing) |-> required_params[missing[i]]])
        ELSE IF db_config.exc # "none" THEN db_config
        ELSE Ok(PyDict([k \in keys \cup {"database"} |->
                          IF k = "database" THEN db_config.value.fields.name
                          ELSE e[param(k)]]))

\* ConfigManager.get_streamlit_config
get_streamlit_config(cfg) == DotGet(cfg, "streamlit", EmptyDict)

\* ConfigManager.get_monitoring_config
get_monitoring_config(cfg) == DotGet(cfg, "monitoring", EmptyDict)

\* x.keys() wrapped in list(): only a dict has the method.
DotKeys(x) ==
    IF IsDict(x) THEN Ok(KeyList(x))
    ELSE Raise("AttributeError", "object has no attribute 'keys'", <<>>)

\* The path every store of the model is constructed from.
config_path == "config.yaml"

\* ConfigManager.get_config_summary: the entries are evaluated in the order of
\* the dict display; the first one that raises ends the call.
get_config_summary(cfg) ==
    LET database == get_database_config(cfg)
        sources == DotGet(cfg, "data_sources", EmptyDict)
        source_names == DotKeys(sources.value)
        rules == get_data_quality_rules(cfg)
        pipeline == DotGet(cfg, "pipeline", EmptyDict)
        stages == DotGet(pipeline.value, "stages", EmptyDict)
        stage_names == DotKeys(stages.value)
        monitoring == DotGet(cfg, "monitoring", EmptyDict)
        enabled == DotGet(monitoring.value, "enabled", PyBool(FALSE))
    IN  CASE database.exc # "none" -> database
          [] sources.exc # "none" -> sources
          [] source_names.exc # "none" -> source_names
          [] rules.exc # "none" -> rules
          [] pipeline.exc # "none" -> pipeline
          [] stages.exc # "none" -> stages
          [] stage_names.exc # "none" -> stage_names
          [] monitoring.exc # "none" -> monitoring
          [] enabled.exc # "none" -> enabled
          [] OTHER ->
                Ok(PyDict([database |-> database.value.fields.name,
                           data_sources |-> source_names.value,
                           data_quality_rules |-> PyInt(Len(rules.value.seq)),
                           pipeline_stages |-> stage_names.value,
                           monitoring_enabled |-> enabled.value,
                           config_file |-> PyStr(config_path)]))

(* ------------------------------------------------------------------ *)
(* ConfigManager: update and persistence                                *)
(* ------------------------------------------------------------------ *)

\* ConfigManager._save_config: the file after open(path, 'w') and yaml.dump.
save_config(cfg) == DumpedFile(cfg)

\* ConfigManager.update_config on a store whose document is the dict cfg and
\* whose file is f: the document, the file and the outcome afterwards. An
\* absent section is created empty; item assignment on a section that is no
\* dict is a TypeError before anything is saved; a dump that cannot represent
\* the document raises after the file was truncated, the document staying
\* mutated.
update_config(cfg, f, section, key, value) ==
    LET created == IF ~Has(cfg, section) THEN Put(cfg, section, EmptyDict) ELSE cfg
        assigned == Put(created, section, Put(created.map[section], key, value))
    IN  IF ~IsDict(created.map[section])
        THEN [config |-> created, file |-> f,
              out |-> Raise("TypeError", "object does not support item assignment", <<>>)]
        ELSE IF ~CanRepresent(assigned)
        THEN [config |-> assigned, file |-> save_config(assigned),
              out |-> Raise("TypeError", "cannot pickle object", <<>>)]
        ELSE [config |-> assigned, file |-> save_config(assigned),
              out |-> [Ok(NoneV) EXCEPT !.logs = <<<<"INFO", section, key>>>>]]

(* ------------------------------------------------------------------ *)
(* create_default_config                                                *)
(* ------------------------------------------------------------------ *)

\* The default_config literal.
default_config ==
    PyDict([database |->
                PyDict([name |-> PyStr("TASTY_BYTES"),
                        schemas |-> PyDict([raw |-> PyStr("RAW_DATA"),
                                            harmonized |-> PyStr("HARMONIZED"),
                                            analytics |-> PyStr("ANALYTICS")])]),
            data_sources |->
                PyDict([weather_data |->
                          PyDict([table |-> PyStr("weather_hamburg"),
                                  schema |-> PyStr("harmonized"),
                                  refresh_frequency |-> PyStr("daily"),
                                  retention_days |-> PyInt(365)])]),
            data_quality |->
                PyDict([validation_rules |->
                          PyList(<<PyDict([name |-> PyStr("null_check"),
                                           type |-> PyStr("completeness"),
                                           threshold |-> PyInt(95),
                                           critical |-> PyBool(TRUE)])>>)]),
            pipeline |->
                PyDict([stages |->
                          PyDict([ingestion |-> PyDict([batch_size |-> PyInt(10000),
                                                        parallel_workers |-> PyInt(4)])]),
                        logging |-> PyDict([level |-> PyStr("INFO")])])])

\* A writer that leaves an existing file alone.
create_default_config_if_absent(f) ==
    IF f.kind = "absent" THEN DumpedFile(default_config) ELSE f

\* create_default_config(output_path): the file it leaves at the path,
\* whatever the path held before.
create_default_config(f) == DumpedFile(default_config)

(* ------------------------------------------------------------------ *)
(* Documents, environments and call arguments the model explores        *)
(* ------------------------------------------------------------------ *)

RequiredSet == {required_sections[i] : i \in 1..Len(required_sections)}

\* d without the keys outside S
Restrict(d, S) == PyDict([k \in (DOMAIN d.map) \cap S |-> d.map[k]])

\* The default document with any subset of its four sections.
SectionDocs == {Restrict(default_config, S) : S \in SUBSET RequiredSet}

\* Database sections with and without name and schemas.
DatabaseDocs ==
    {Put(default_config, "database", d) :
        d \in {EmptyDict,
               PyDict([name |-> PyStr("SALES")]),
               PyDict([schemas |-> PyDict([raw |-> PyStr("RAW_DATA")])])}}

LoggingSections ==
    {EmptyDict,
     PyDict([level |-> PyStr("DEBUG")]),
     PyDict([level |-> PyStr("BOGUS")])}

AllStageFields ==
    PyDict([batch_size |-> PyInt(500), parallel_workers |-> PyInt(2),
            error_handling |-> PyStr("skip"), warehouse_size |-> PyStr("XS"),
            timeout_minutes |-> PyInt(30), auto_suspend_minutes |-> PyInt(5),
            export_formats |-> PyList(<<PyStr("csv")>>), compression |-> PyStr("gzip")])

StagesSections ==
    {EmptyDict,
     PyDict([ingestion |-> EmptyDict]),
     PyDict([ingestion |-> PyDict([batch_size |-> PyInt(500), retries |-> PyInt(3)])]),
     PyDict([ingestion |-> PyDict([timeout_minutes |-> NoneV]), export |-> AllStageFields])}

\* Pipeline sections: with or without stages, with or without logging.
PipelineDocs ==
    {Put(default_config, "pipeline", EmptyDict)}
    \cup {Put(default_config, "pipeline", PyDict([logging |-> l])) : l \in LoggingSections}
    \cup {Put(default_config, "pipeline", PyDict([stages |-> st])) : st \in StagesSections}

Rule(n, t, th) ==
    PyDict([name |-> PyStr(n), type |-> PyStr(t), threshold |-> PyInt(th),
            critical |-> PyBool(TRUE)])

\* Rule records of the general specification: a valid one, an invalid one of
\* the same name, and one without its critical field.
SomeRules ==
    {Rule("null_check", "completeness", 95),
     Rule("null_check", "timeliness", -1),
     PyDict([name |-> PyStr("dup_check"), type |-> PyStr("uniqueness"),
             threshold |-> PyInt(100)])}

SeqsUpTo(S, n) == UNION {[1..k -> S] : k \in 0..n}

RuleDocs ==
    {Put(default_config, "data_quality", EmptyDict)}
    \cup {Put(default_config, "data_quality", PyDict([validation_rules |-> PyList(rs)])) :
            rs \in SeqsUpTo(SomeRules, MaxRules)}

\* The default document with the two optional sections.
OptionalDocs ==
    {Put(Put(default_config, "monitoring", PyDict([enabled |-> PyBool(TRUE)])),
         "streamlit", PyDict([title |-> PyStr("Weather")]))}

InitDocs == SectionDocs \cup DatabaseDocs \cup PipelineDocs \cup RuleDocs \cup OptionalDocs

\* What the path may hold before the program runs.
InitFiles ==
    {[kind |-> "absent"], [kind |-> "malformed"], [kind |-> "empty"]}
    \cup {[kind |-> "yaml", node |-> Represent(d)] : d \in InitDocs}

ParamSet == {required_params[i] : i \in 1..Len(required_params)}

\* os.getenv of a variable: None when unset, else its value (possibly "").
EnvValues == {NoneV, PyStr(""), PyStr("x")}

AllEnvs == [ParamSet -> EnvValues]

SourceNames == {"weather_data", "missing"}

StageNames == {"ingestion", "export", "missing"}

\* (section, key, value) arguments of update_config.
UpdateInputs ==
    {<<"pipeline", "retries", PyInt(3)>>,
     <<"pipeline", "logging", PyDict([level |-> PyStr("BOGUS")])>>,
     <<"monitoring", "owners", PyTuple(<<PyStr("ops")>>)>>,
     <<"monitoring", "probe", Generator>>}

(* ------------------------------------------------------------------ *)
(* The state machine                                                    *)
(* ------------------------------------------------------------------ *)

Call(op, args, val, out) == [op |-> op, args |-> args, val |-> val, out |-> out]

\* The root logger of a fresh process: no handler, level WARNING.
FreshLogging == [configured |-> FALSE, level |-> LevelOf("WARNING")]

InitWith(files, envs) ==
    /\ file \in files
    /\ env \in envs
    /\ constructed = FALSE
    /\ config = NoneV
    /\ logging = FreshLogging
    /\ nUpdates = 0
    /\ result = Call("none", <<>>, NoneV, Ok(NoneV))
    /\ pc = "imported"
    /\ stdout = <<>>
    /\ caught = Call("none", <<>>, NoneV, Ok(NoneV))

\* The general specification: the module imported by a caller (the example
\* flow does not run), any initial file, every variable set.
Init == InitWith(InitFiles, {[p \in ParamSet |-> PyStr("x")]})

\* config_manager = ConfigManager(config_path): a store replaces the one held
\* only when __init__ returns.
Construct ==
    LET r == ConfigManagerInit(file, logging)
    IN  /\ result' = Call("ConfigManager", <<>>, NoneV, r.out)
        /\ logging' = r.logging
        /\ IF r.out.exc = "none"
           THEN constructed' = TRUE /\ config' = r.out.value
           ELSE UNCHANGED <<constructed, config>>
        /\ UNCHANGED <<file, env, nUpdates>>
        /\ UNCHANGED flow

\* A method that reads the store and changes nothing.
Reads(op, args, out) ==
    /\ constructed
    /\ result' = Call(op, args, NoneV, out)
    /\ UNCHANGED <<file, constructed, config, env, logging, nUpdates>>
    /\ UNCHANGED flow

GetDatabaseConfig == Reads("get_database_config", <<>>, get_database_config(config))

GetDataSourceConfig ==
    \E n \in SourceNames :
        Reads("get_data_source_config", <<n>>, get_data_source_config(config, n))

GetDataQualityRules == Reads("get_data_quality_rules", <<>>, get_data_quality_rules(config))

GetPipelineStageConfig ==
    \E n \in StageNames :
        Reads("get_pipeline_stage_config", <<n>>, get_pipeline_stage_config(config, n))

GetConnectionParams ==
    Reads("get_snowflake_connection_params", <<>>,
          get_snowflake_connection_params(config, env))

GetStreamlitConfig == Reads("get_streamlit_config", <<>>, get_streamlit_config(config))

GetMonitoringConfig == Reads("get_monitoring_config", <<>>, get_monitoring_config(config))

ValidateDataQualityThresholds ==
    Reads("validate_data_quality_thresholds", <<>>, validate_data_quality_thresholds(config))

GetConfigSummary == Reads("get_config_summary", <<>>, get_config_summary(config))

UpdateConfig ==
    \E u \in UpdateInputs :
        LET r == update_config(config, file, u[1], u[2], u[3])
        IN  /\ constructed
            /\ nUpdates < MaxUpdates
            /\ config' = r.config
            /\ file' = r.file
            /\ nUpdates' = nUpdates + 1
            /\ result' = Call("update_config", <<u[1], u[2]>>, u[3], r.out)
            /\ UNCHANGED <<constructed, env, logging>>
            /\ UNCHANGED flow

CreateDefaultDocument ==
    /\ file' = create_default_config(file)
    /\ result' = Call("create_default_config", <<>>, NoneV, Ok(NoneV))
    /\ UNCHANGED <<constructed, config, env, logging, nUpdates>>
    /\ UNCHANGED flow

Next ==
    \/ Construct
    \/ GetDatabaseConfig
    \/ GetDataSourceConfig
    \/ GetDataQualityRules
    \/ GetPipelineStageConfig
    \/ GetConnectionParams
    \/ GetStreamlitConfig
    \/ GetMonitoringConfig
    \/ ValidateDataQualityThresholds
    \/ GetConfigSummary
    \/ UpdateConfig
    \/ CreateDefaultDocument

Spec == Init /\ [][Next]_vars

(* ------------------------------------------------------------------ *)
(* The environment specification: every combination of the five         *)
(* variables being unset, empty or set, over a document with and one     *)
(* without a database name; the calls that read them.                    *)
(* ------------------------------------------------------------------ *)

EnvFiles ==
    {[kind |-> "yaml", node |-> Represent(d)] :
        d \in {default_config, Put(default_config, "database", EmptyDict)}}

InitEnv == InitWith(EnvFiles, AllEnvs)

NextEnv ==
    \/ Construct
    \/ GetDatabaseConfig
    \/ GetConnectionParams

SpecEnv == InitEnv /\ [][NextEnv]_vars

(* ------------------------------------------------------------------ *)
(* The example flow: the module run as a script                         *)
(* ------------------------------------------------------------------ *)

\* One print call: its fixed text and the object formatted into it.
Line(text, arg) == [text |-> text, arg |-> arg]

\* The exception classes of the model, all subclasses of Exception.
ExceptionClasses ==
    {"FileNotFoundError", "ValueError", "TypeError", "AttributeError", "KeyError"}

\* A handler that names one class only.
handler_catches_ValueError(exc) == exc = "ValueError"

\* `except Exception as e`: the classes the handler of the flow catches.
handler_catches(exc) == exc \in ExceptionClasses

\* The keys of the summary, in the order of its dict display.
summary_keys ==
    <<"database", "data_sources", "data_quality_rules", "pipeline_stages",
      "monitoring_enabled", "config_file">>

\* A call inside the try block: on a normal return the flow prints and moves
\* on; an exception the handler catches is bound to e; any other ends the
\* script with a traceback.
TryCall(at, op, out, prints, next) ==
    /\ pc = at
    /\ result' = Call(op, <<>>, NoneV, out)
    /\ IF out.exc = "none"
       THEN pc' = next /\ stdout' = stdout \o prints /\ UNCHANGED caught
       ELSE IF handler_catches(out.exc)
       THEN pc' = "except" /\ caught' = Call(op, <<>>, NoneV, out) /\ UNCHANGED stdout
       ELSE pc' = "crashed" /\ UNCHANGED <<stdout, caught>>

\* config_manager = ConfigManager("config.yaml")
MainConstruct ==
    LET r == ConfigManagerInit(file, logging)
    IN  /\ TryCall("try", "ConfigManager", r.out, <<>>, "summary")
        /\ logging' = r.logging
        /\ IF r.out.exc = "none"
           THEN constructed' = TRUE /\ config' = r.out.value
           ELSE UNCHANGED <<constructed, config>>
        /\ UNCHANGED <<file, env, nUpdates>>

\* summary = config_manager.get_config_summary() and the prints of its items
MainSummary ==
    LET out == get_config_summary(config)
        items == [i \in 1..Len(summary_keys) |->
                    Line(summary_keys[i], out.value.map[summary_keys[i]])]
    IN  /\ TryCall("summary", "get_config_summary", out,
                   <<Line("Configuration Summary:", NoneV)>> \o items, "validate")
        /\ UNCHANGED <<file, constructed, config, env, logging, nUpdates>>

\* validation_results = config_manager.validate_data_quality_thresholds() and
\* its print; the try block ends.
MainValidate ==
    LET out == validate_data_quality_thresholds(config)
    IN  /\ TryCall("validate", "validate_data_quality_thresholds", out,
                   <<Line("Data Quality Validation:", out.value)>>, "done")
        /\ UNCHANGED <<file, constructed, config, env, logging, nUpdates>>

\* A print of the handler.
HandlerPrint(at, line, next) ==
    /\ pc = at
    /\ stdout' = Append(stdout, line)
    /\ pc' = next
    /\ UNCHANGED <<file, constructed, config, env, logging, nUpdates, result, caught>>

\* print(f"Error: {e}")
MainPrintError == HandlerPrint("except", Line("Error:", caught.out), "creating")

\* print("Creating default configuration file...")
MainPrintCreating ==
    HandlerPrint("creating", Line("Creating default configuration file...", NoneV), "create")

\* create_default_config(): the default output path is the path the flow
\* loaded from.
MainCreateDefault ==
    /\ pc = "create"
    /\ file' = create_default_config(file)
    /\ result' = Call("create_default_config", <<>>, NoneV, Ok(NoneV))
    /\ pc' = "created"
    /\ UNCHANGED <<constructed, config, env, logging, nUpdates, stdout, caught>>

\* print("Default config.yaml created successfully!"); the script ends.
MainPrintCreated ==
    HandlerPrint("created", Line("Default config.yaml created successfully!", NoneV), "done")

\* The script starts with whatever the path holds.
InitMain ==
    /\ file \in InitFiles
    /\ env = [p \in ParamSet |-> NoneV]
    /\ constructed = FALSE
    /\ config = NoneV
    /\ logging = FreshLogging
    /\ nUpdates = 0
    /\ result = Call("none", <<>>, NoneV, Ok(NoneV))
    /\ pc = "try"
    /\ stdout = <<>>
    /\ caught = Call("none", <<>>, NoneV, Ok(NoneV))

NextMain ==
    \/ MainConstruct
    \/ MainSummary
    \/ MainValidate
    \/ MainPrintError
    \/ MainPrintCreating
    \/ MainCreateDefault
    \/ MainPrintCreated

\* The interpreter runs the script statement by statement to its end: no
\* statement blocks.
SpecMain == InitMain /\ [][NextMain]_vars /\ WF_vars(NextMain)

(* ------------------------------------------------------------------ *)
(* Properties                                                           *)
(* ------------------------------------------------------------------ *)

\* The document a parsable file holds.
DocOf(f) == SafeConstruct(f.node)

\* The file holds a mapping document.
HoldsMapping(f) == f.kind = "yaml" /\ Constructible(f.node) /\ IsDict(DocOf(f))

MissingSections(doc) == {sec \in RequiredSet : ~Has(doc, sec)}

\* C1: Construct(path) on a parsable (mapping) document fails with the
\* missing-section error (ValueError "Missing required configuration section")
\* naming a missing section whenever one of the four mandatory sections is
\* missing, and succeeds whenever all four are present.
C1_ConstructChecksSections ==
    (result.op = "ConfigManager" /\ HoldsMapping(file)) =>
        IF MissingSections(DocOf(file)) # {}
        THEN /\ result.out.exc = "ValueError"
             /\ result.out.msg = "Missing required configuration section"
             /\ Len(result.out.names) = 1
             /\ result.out.names[1] \in MissingSections(DocOf(file))
        ELSE result.out.exc = "none"

\* The raw rule records of a document (none when validation_rules is absent).
DocRules(cfg) == Get(Get(cfg, "data_quality", EmptyDict), "validation_rules", PyList(<<>>)).seq

\* The threshold test the data model states for a rule record.
ThresholdOk(r) ==
    LET t == r.map["threshold"].int
    IN  CASE r.map["type"] \in {PyStr("completeness"), PyStr("uniqueness")} -> 0 <= t /\ t <= 100
          [] r.map["type"] = PyStr("timeliness") -> t >= 0
          [] OTHER -> TRUE

\* C2: ValidateDataQualityThresholds never raises and returns one entry per
\* rule name of the document; for every rule of type completeness or
\* uniqueness the value reported under its name is true iff
\* 0 <= threshold <= 100, and for every rule of type timeliness iff
\* threshold >= 0.
C2_ValidateReportsEveryRule ==
    result.op = "validate_data_quality_thresholds" =>
        LET rules == DocRules(config)
        IN  /\ result.out.exc = "none"
            /\ DOMAIN result.out.value.map = {rules[i].map["name"].str : i \in 1..Len(rules)}
            /\ \A i \in 1..Len(rules) :
                  rules[i].map["type"] \in
                        {PyStr("completeness"), PyStr("uniqueness"), PyStr("timeliness")}
                  => (result.out.value.map[rules[i].map["name"].str].bool <=> ThresholdOk(rules[i]))

\* C3: whenever UpdateConfig(section, key, value) returns without error, a
\* fresh store constructed from the same path holds a document equal to the
\* store's in-memory document, in which document[section][key] = value, the
\* section created if it was absent, and every other entry is as before.
C3_UpdateRoundTrip ==
    [][(result'.op = "update_config" /\ result'.out.exc = "none") =>
          LET section == result'.args[1]
              key == result'.args[2]
              fresh == ConfigManagerInit(file', logging').out
              before == IF Has(config, section) THEN config.map[section] ELSE EmptyDict
          IN  /\ fresh.exc = "none"
              /\ fresh.value = config'
              /\ config'.map[section].map[key] = result'.val
              /\ DOMAIN config'.map = DOMAIN config.map \cup {section}
              /\ \A sec \in DOMAIN config.map \ {section} : config'.map[sec] = config.map[sec]
              /\ DOMAIN config'.map[section].map = DOMAIN before.map \cup {key}
              /\ \A k \in DOMAIN before.map \ {key} :
                    config'.map[section].map[k] = before.map[k]
      ]_vars

\* The variables os.getenv reports as None.
AbsentParams(e) == {p \in ParamSet : IsNone(e[p])}

\* The variables that are unset or set to the empty string.
FalsyParams(e) == {p \in ParamSet : ~Truthy(e[p])}

\* The call failed with the missing-variables error.
MissingEnvironmentError(out) ==
    out.exc = "ValueError" /\ out.msg = "Missing required environment variables"

\* The names an error lists are exactly those of S, each once.
ListsExactly(out, S) ==
    /\ {out.names[i] : i \in 1..Len(out.names)} = S
    /\ Len(out.names) = Cardinality(S)

\* C4 as stated: GetConnectionParams fails with the missing-variables error
\* iff at least one of the five variables is absent, and the error lists
\* exactly the absent variables.
C4_FailsIffAbsent ==
    result.op = "get_snowflake_connection_params" =>
        /\ MissingEnvironmentError(result.out) <=> AbsentParams(env) # {}
        /\ MissingEnvironmentError(result.out) => ListsExactly(result.out, AbsentParams(env))

\* C4 (amended): GetConnectionParams fails with the missing-variables error
\* iff at least one of the five variables is absent or set to the empty
\* string, and the error lists exactly those variables, all of them and no
\* others, each once; with all five unset it lists five names.
C4_FailsIffAbsentOrEmpty ==
    result.op = "get_snowflake_connection_params" =>
        /\ MissingEnvironmentError(result.out) <=> FalsyParams(env) # {}
        /\ MissingEnvironmentError(result.out) => ListsExactly(result.out, FalsyParams(env))
        /\ AbsentParams(env) = ParamSet => Len(result.out.names) = 5

\* C4 witness: the call failed listing three variables, the first of the five
\* being set and the second missing, one of the missing ones set to "".
C4_Witness ==
    /\ result.op = "get_snowflake_connection_params"
    /\ MissingEnvironmentError(result.out)
    /\ Len(result.out.names) = 3
    /\ Truthy(env["SNOWFLAKE_ACCOUNT"])
    /\ IsNone(env["SNOWFLAKE_USER"])
    /\ env["SNOWFLAKE_ROLE"] = PyStr("")

\* C5: when all five variables are set, GetConnectionParams returns a mapping
\* with exactly the six keys account, user, password, warehouse, role and
\* database, the first five mapped to the variables' values and database to
\* the database name stored in the document.
C5_SixKeysWhenAllSet ==
    (result.op = "get_snowflake_connection_params" /\ AbsentParams(env) = {}) =>
        /\ result.out.exc = "none"
        /\ DOMAIN result.out.value.map =
              {"account", "user", "password", "warehouse", "role", "database"}
        /\ \A p \in ParamSet : result.out.value.map[ParamKey(p)] = env[p]
        /\ result.out.value.map["database"] = config.map["database"].map["name"]

\* C6: GetDataSourceConfig(name) fails with KeyError (not found) if name is no
\* key of data_sources, and otherwise returns the mapping stored under name;
\* either way the document and the persisted file stay as they were.
C6_DataSourceLookup ==
    [][result'.op = "get_data_source_config" =>
          LET name == result'.args[1]
              data_sources == config.map["data_sources"]
          IN  /\ IF ~Has(data_sources, name)
                 THEN result'.out.exc = "KeyError"
                 ELSE result'.out.exc = "none" /\ result'.out.value = data_sources.map[name]
              /\ config' = config
              /\ file' = file
      ]_vars

\* C6 witness: after an update was persisted, the lookup of weather_data
\* returned the stored mapping.
C6_Witness ==
    /\ result.op = "get_data_source_config"
    /\ result.args = <<"weather_data">>
    /\ result.out.exc = "none"
    /\ result.out.value = default_config.map["data_sources"].map["weather_data"]
    /\ nUpdates > 0

\* C7: after CreateDefaultDocument(path), whatever the path held, constructing
\* a store from path succeeds, its summary counts one data-quality rule and
\* validation reports the single rule null_check as valid.
C7_DefaultDocumentLoads ==
    result.op = "create_default_config" =>
        LET fresh == ConfigManagerInit(file, logging).out
        IN  /\ fresh.exc = "none"
            /\ get_config_summary(fresh.value).exc = "none"
            /\ get_config_summary(fresh.value).value.map["data_quality_rules"] = PyInt(1)
            /\ validate_data_quality_thresholds(fresh.value).exc = "none"
            /\ validate_data_quality_thresholds(fresh.value).value
                  = PyDict([null_check |-> PyBool(TRUE)])

\* C7 witness: the default document was written before any store had been
\* constructed (over an absent, malformed, empty or unloadable file among
\* others).
C7_Witness ==
    /\ result.op = "create_default_config"
    /\ ~constructed
    /\ file.kind = "yaml"

\* C8: once Construct has succeeded, GetDatabaseConfig never fails: it returns
\* a DatabaseConfig whose name and schemas are those of the document's
\* database section.
C8_DatabaseConfigNeverFails ==
    result.op = "get_database_config" =>
        /\ result.out.exc = "none"
        /\ result.out.value.cls = "DatabaseConfig"
        /\ result.out.value.fields.name = config.map["database"].map["name"]
        /\ result.out.value.fields.schemas = config.map["database"].map["schemas"]

\* The level name a mapping document sets (INFO when it sets none).
LevelName(doc) ==
    Get(Get(Get(doc, "pipeline", EmptyDict), "logging", EmptyDict), "level", PyStr("INFO"))

\* C9: constructing from a document with all four sections whose
\* pipeline.logging.level is no valid level name succeeds, and logging falls
\* back to the default level INFO.
C9_InvalidLevelFallsBack ==
    [][(/\ result'.op = "ConfigManager"
        /\ HoldsMapping(file)
        /\ MissingSections(DocOf(file)) = {}
        /\ LevelName(DocOf(file)).str \notin LevelNames) =>
          /\ result'.out.exc = "none"
          /\ logging'.configured
          /\ ~logging.configured => logging'.level = LevelOf("INFO")
      ]_vars

\* C10: GetPipelineStageConfig(stageName) fails with KeyError (not found) if
\* the stage is absent from pipeline.stages, fails with the strict-mapping
\* error (TypeError, unexpected keyword) if the stored record has a field
\* outside the eight recognized ones, and otherwise returns a record whose
\* recognized fields equal the stored values and whose absent fields are None.
C10_StageLookup ==
    result.op = "get_pipeline_stage_config" =>
        LET stageName == result.args[1]
            stages == Get(config.map["pipeline"], "stages", EmptyDict)
        IN  IF ~Has(stages, stageName)
            THEN result.out.exc = "KeyError"
            ELSE IF ~(DOMAIN stages.map[stageName].map \subseteq PipelineStageFields)
            THEN /\ result.out.exc = "TypeError"
                 /\ result.out.msg = "__init__() got an unexpected keyword argument"
            ELSE /\ result.out.exc = "none"
                 /\ result.out.value.cls = "PipelineStage"
                 /\ DOMAIN result.out.value.fields = PipelineStageFields
                 /\ \A f \in PipelineStageFields :
                       result.out.value.fields[f] =
                          IF Has(stages.map[stageName], f)
                          THEN stages.map[stageName].map[f]
                          ELSE NoneV

\* C10 witness: a stage record with a field that is no PipelineStage field was
\* looked up and rejected.
C10_Witness ==
    /\ result.op = "get_pipeline_stage_config"
    /\ result.args = <<"ingestion">>
    /\ Has(Get(Get(config.map["pipeline"], "stages", EmptyDict), "ingestion", EmptyDict),
           "retries")
    /\ result.out.exc = "TypeError"

\* The constructor call of the flow raised and the handler bound the exception.
LoadFailed == caught.op = "ConfigManager"

\* What the handler has printed once it is through: the original error first.
HandlerOutput ==
    <<Line("Error:", caught.out),
      Line("Creating default configuration file...", NoneV),
      Line("Default config.yaml created successfully!", NoneV)>>

\* The statements of the flow in the order control passes through them, and
\* last the end by an exception no handler catches.
FlowOrder ==
    <<"try", "summary", "validate", "except", "creating", "create", "created", "done",
      "crashed">>

Position(at) == CHOOSE i \in 1..Len(FlowOrder) : FlowOrder[i] = at

\* The steps of the `except Exception` block.
Handler ==
    MainPrintError \/ MainPrintCreating \/ MainCreateDefault \/ MainPrintCreated

\* C11: in the example flow, whenever loading the document fails, the flow
\* does not crash; the file is written only by the handler's
\* create_default_config, after the line reporting the original error was
\* printed as the first output; and the flow then ends normally: every step
\* moves it forward, the handler can always take its next step until the flow
\* is done, and it is done with the three handler lines printed and the path
\* holding the default document.
C11_LoadFailureRecovers ==
    /\ [](pc # "crashed")
    /\ [](LoadFailed => caught.out = result.out \/ result.op = "create_default_config")
    /\ [][(LoadFailed /\ file' # file) =>
             /\ pc = "create"
             /\ Len(stdout) >= 1
             /\ stdout[1] = Line("Error:", caught.out)
             /\ file' = DumpedFile(default_config)]_vars
    /\ [][Position(pc') > Position(pc)]_vars
    /\ []((LoadFailed /\ pc # "done") => ENABLED Handler)
    /\ []((LoadFailed /\ pc = "done") =>
             stdout = HandlerOutput /\ file = DumpedFile(default_config))

\* C11 witness: loading failed on a missing section, and the flow ended
\* having reported that error and then written the default document.
C11_Witness ==
    /\ LoadFailed
    /\ caught.out.msg = "Missing required configuration section"
    /\ pc = "done"
    /\ stdout = HandlerOutput
    /\ file = DumpedFile(default_config)
====
